---- MODULE Spec2Model ----
(***************************************************************************)
(* Combat core of "A Hex Befalls the Hexagons": the Health model           *)
(* (src/actor/health.rs), the attack resolver (src/actor/attack.rs), the   *)
(* turn-order scheduler and the combat state machine (src/game/combat.rs,  *)
(* src/game/attack_options.rs) and the room loop that enters and leaves    *)
(* combat (src/game/mod.rs, src/room.rs).                                  *)
(*                                                                         *)
(* Option<NonZero<u32>> is modelled as a sequence: None is <<>> and        *)
(* Some(n) is <<n>>.  Health and damage amounts are scaled down to the     *)
(* bounds below; speeds, hit chances and block chances keep the values of  *)
(* the source.                                                             *)
(***************************************************************************)
EXTENDS Integers, Sequences, FiniteSets, TLC

\* ------------------------------------------------------------------ bounds
\* largest max health of an actor of the game roster
MaxHP == 2
\* largest amount handed to a Health operation: damage, heal, pit damage
MaxAmount == 3
\* largest number of actors in a roster handed to the scheduler functions
MaxActors == 3
\* largest max of a Health the operations are applied to on their own
MaxTestHP == 10
\* largest amount of such an operation
MaxTestAmount == 20
\* largest amount of an operation between two runs of kill_heal_revive
MaxSnapAmount == 5
\* number of values of the generator's stream that are looked at
MaxDraws == 4
\* number of different values a value of the stream can have
NumWords == 4
\* largest number of values in the damage range of an Attack under test
MaxSpan == 2

\* ------------------------------------------------------------ Option, u32
None == <<>>
Some(n) == <<n>>
IsSome(o) == o # None
Get(o) == o[1]
\* Option::map(|c| c.get()).unwrap_or(0)
UnwrapOr0(o) == IF o = None THEN 0 ELSE o[1]

\* NonZero::<u32>::new(n): None for 0, Some(n) otherwise
NonZeroNew(n) == IF n = 0 THEN None ELSE Some(n)

\* u32::saturating_sub
saturating_sub(a, b) == IF b >= a THEN 0 ELSE a - b

MinOf(a, b) == IF a <= b THEN a ELSE b

\* ------------------------------------------------------------------ Health
\* Health { current: Option<NonZero<u32>>, max: NonZero<u32> }
Health(c, m) == [current |-> c, max |-> m]

\* Health::new(max)
HealthNew(m) == Health(Some(m), m)

\* Health::with_current(NonZero::new(current), max)
with_current(c, m) == Health(NonZeroNew(c), m)

is_alive(h) == IsSome(h.current)

\* saturating_add followed by min(max): max <= u32::MAX, so the saturation
\* at u32::MAX is never the smaller of the two
\* heal that counts a dead Health as 0
heal_revives(h, amount) ==
    IF NonZeroNew(amount) = None THEN h
    ELSE [h EXCEPT !.current = Some(MinOf(UnwrapOr0(h.current) + amount, h.max))]

heal(h, amount) ==
    IF NonZeroNew(amount) = None THEN h
    ELSE IF IsSome(h.current)
         THEN [h EXCEPT !.current = Some(MinOf(Get(h.current) + amount, h.max))]
         ELSE h

\* heal_or_revive without the min(max)
heal_or_revive_unclamped(h, amount) ==
    IF NonZeroNew(amount) = None THEN h
    ELSE [h EXCEPT !.current = NonZeroNew(UnwrapOr0(h.current) + amount)]

heal_or_revive(h, amount) ==
    IF NonZeroNew(amount) = None THEN h
    ELSE [h EXCEPT !.current =
             NonZeroNew(MinOf(UnwrapOr0(h.current) + amount, h.max))]

\* damage that leaves 1 when the amount is exactly the current health
damage_spares_exact(h, amount) ==
    IF h.current = None \/ NonZeroNew(amount) = None THEN h
    ELSE [h EXCEPT !.current =
             IF amount = Get(h.current) THEN Some(1)
             ELSE NonZeroNew(saturating_sub(Get(h.current), amount))]

damage(h, amount) ==
    IF h.current = None \/ NonZeroNew(amount) = None THEN h
    ELSE [h EXCEPT !.current = NonZeroNew(saturating_sub(Get(h.current), amount))]

\* NonZero::new(..).unwrap_or(1)
OrOne(o) == IF o = None THEN Some(1) ELSE o

\* damage_no_kill without the unwrap_or(1)
damage_no_kill_unfloored(h, amount) ==
    IF h.current = None \/ NonZeroNew(amount) = None THEN h
    ELSE [h EXCEPT !.current = NonZeroNew(saturating_sub(Get(h.current), amount))]

damage_no_kill(h, amount) ==
    IF h.current = None \/ NonZeroNew(amount) = None THEN h
    ELSE [h EXCEPT !.current =
             OrOne(NonZeroNew(saturating_sub(Get(h.current), amount)))]

\* damage_endurence without the (curr > 1) test
damage_endurence_never_kills(h, amount) ==
    IF h.current = None \/ NonZeroNew(amount) = None THEN h
    ELSE [h EXCEPT !.current =
             OrOne(NonZeroNew(saturating_sub(Get(h.current), amount)))]

damage_endurence(h, amount) ==
    IF h.current = None \/ NonZeroNew(amount) = None THEN h
    ELSE [h EXCEPT !.current =
             IF Get(h.current) > 1
             THEN OrOne(NonZeroNew(saturating_sub(Get(h.current), amount)))
             ELSE None]

\* damage_no_one_shot that floors at 1 whenever the Health is above 1
damage_no_one_shot_above_one(h, amount) ==
    IF h.current = None \/ NonZeroNew(amount) = None THEN h
    ELSE [h EXCEPT !.current =
             IF Get(h.current) > 1
             THEN OrOne(NonZeroNew(saturating_sub(Get(h.current), amount)))
             ELSE NonZeroNew(saturating_sub(Get(h.current), amount))]

damage_no_one_shot(h, amount) ==
    IF h.current = None \/ NonZeroNew(amount) = None THEN h
    ELSE [h EXCEPT !.current =
             IF Get(h.current) = h.max
             THEN OrOne(NonZeroNew(saturating_sub(Get(h.current), amount)))
             ELSE NonZeroNew(saturating_sub(Get(h.current), amount))]

kill(h) == [h EXCEPT !.current = None]

\* ------------------------------------------------------------- HealthOld
\* HealthOld(Option<NonZero<u32>>)
HealthOldNew(val) == val

\* the match that reports a decrease as Healed and an increase as Damaged
HealthChangeOf_swapped(old_old, current) ==
    CASE IsSome(old_old) /\ current = None -> Some("Killed")
      [] old_old = None /\ IsSome(current) -> Some("Revived")
      [] IsSome(old_old) /\ IsSome(current) /\ Get(old_old) > Get(current) ->
            Some("Healed")
      [] IsSome(old_old) /\ IsSome(current) /\ Get(old_old) < Get(current) ->
            Some("Damaged")
      [] OTHER -> None

\* the match of update_old_health on (old_old, health.current): the
\* HealthChange, or None
HealthChangeOf(old_old, current) ==
    CASE IsSome(old_old) /\ current = None -> Some("Killed")
      [] old_old = None /\ IsSome(current) -> Some("Revived")
      [] IsSome(old_old) /\ IsSome(current) /\ Get(old_old) > Get(current) ->
            Some("Damaged")
      [] IsSome(old_old) /\ IsSome(current) /\ Get(old_old) < Get(current) ->
            Some("Healed")
      [] OTHER -> None

\* update_old_health that leaves the stored snapshot as it was
update_old_health_keeps_old(self, hl) ==
    [old |-> self, change |-> HealthChangeOf(self, hl.current)]

\* HealthOld::update_old_health(&mut self, health): the new value of self
\* and the returned Option<HealthChange>
update_old_health(self, hl) ==
    [old |-> hl.current, change |-> HealthChangeOf(self, hl.current)]

\* ------------------------------------------------------------- TeamAlive
\* found that keeps Player when an Enemy member is met
found_keeps_player(self, team) ==
    CASE self = "Both" -> "Both"
      [] team = "Player" /\ self = "Player" -> "Player"
      [] team = "Enemy" /\ self = "Enemy" -> "Enemy"
      [] team = "Enemy" /\ self = "Player" -> "Player"
      [] team = "Player" /\ self = "Enemy" -> "Both"
      [] team = "Player" /\ self = "Neither" -> "Player"
      [] team = "Enemy" /\ self = "Neither" -> "Enemy"

\* TeamAlive::found(&self, team)
found(self, team) ==
    CASE self = "Both" -> "Both"
      [] team = "Player" /\ self = "Player" -> "Player"
      [] team = "Enemy" /\ self = "Enemy" -> "Enemy"
      [] team = "Enemy" /\ self = "Player" -> "Both"
      [] team = "Player" /\ self = "Enemy" -> "Both"
      [] team = "Player" /\ self = "Neither" -> "Player"
      [] team = "Enemy" /\ self = "Neither" -> "Enemy"

\* ------------------------------------------------------------- TurnOrder
\* sort_by_cached_key(speed): stable, ascending.  Insert x behind every
\* element whose key is not larger.
\* an insertion that puts x in front of the elements of equal speed
RECURSIVE InsertBySpeed_unstable(_, _, _)
InsertBySpeed_unstable(s, x, st) ==
    IF s = <<>> THEN <<x>>
    ELSE IF st[s[Len(s)]].speed < st[x].speed
         THEN Append(s, x)
         ELSE Append(InsertBySpeed_unstable(SubSeq(s, 1, Len(s) - 1), x, st),
                     s[Len(s)])

RECURSIVE InsertBySpeed(_, _, _)
InsertBySpeed(s, x, st) ==
    IF s = <<>> THEN <<x>>
    ELSE IF st[s[Len(s)]].speed <= st[x].speed
         THEN Append(s, x)
         ELSE Append(InsertBySpeed(SubSeq(s, 1, Len(s) - 1), x, st), s[Len(s)])

RECURSIVE SortBySpeed(_, _)
SortBySpeed(s, st) ==
    IF s = <<>> THEN <<>>
    ELSE InsertBySpeed(SortBySpeed(SubSeq(s, 1, Len(s) - 1), st), s[Len(s)], st)

\* a TurnOrder::new whose queue has the fastest actor at the front
TurnOrderNew_fastest_front(roster, st) ==
    LET q == SortBySpeed(roster, st)
    IN [i \in 1..Len(q) |-> q[Len(q) + 1 - i]]

\* TurnOrder::new: roster is the order in which the actor query yields the
\* entities, st the stat components
TurnOrderNew(roster, st) == SortBySpeed(roster, st)

\* TurnOrder::active: queue.back().unwrap()
active(q) == q[Len(q)]

\* a rotation to the left: the first k elements move to the back
rotate_right_to_left(q, k) ==
    LET n == Len(q) IN [i \in 1..n |-> q[((i - 1 + k) % n) + 1]]

\* VecDeque::rotate_right(k): the last k elements move to the front
rotate_right(q, k) ==
    LET n == Len(q) IN [i \in 1..n |-> q[((i - 1 - k) % n) + 1]]

\* the scan without the skip(1): the tail itself is a candidate
FindNextLiving_from_tail(q, hl) ==
    LET n == Len(q)
        S == {k \in 0..(n - 1) : is_alive(hl[q[n - k]])}
    IN IF S = {} THEN None
       ELSE Some(CHOOSE k \in S : \A j \in S : k <= j)

\* the find_map of skip_to_next: the first index idx >= 1, counted from the
\* back of the queue, whose actor is alive; None when there is none
FindNextLiving(q, hl) ==
    LET n == Len(q)
        S == {k \in 1..(n - 1) : is_alive(hl[q[n - k]])}
    IN IF S = {} THEN None
       ELSE Some(CHOOSE k \in S : \A j \in S : k <= j)

\* a skip_to_next that also drops the dead actors from the queue
skip_to_next_drops_dead(q, hl) ==
    SelectSeq(rotate_right(q, Get(FindNextLiving(q, hl))),
              LAMBDA e : is_alive(hl[e]))

\* TurnOrder::skip_to_next, defined when FindNextLiving is Some
skip_to_next(q, hl) == rotate_right(q, Get(FindNextLiving(q, hl)))

\* TurnOrder::teams_alive: fold over the queue, front to back
RECURSIVE FoldFound(_, _, _, _)
FoldFound(q, hl, st, acc) ==
    IF q = <<>> THEN acc
    ELSE FoldFound(Tail(q), hl, st,
                   IF is_alive(hl[Head(q)]) THEN found(acc, st[Head(q)].team)
                   ELSE acc)

teams_alive(q, hl, st) == FoldFound(q, hl, st, "Neither")

\* ---------------------------------------------------------------- Attack
\* AttackDamage
Miss == <<"Miss">>
Hit(d) == <<"Hit", d>>

\* Rng::random_bool(p), p in percent: never for 0, always for 100
RandomBool(p) == IF p <= 0 THEN {FALSE} ELSE IF p >= 100 THEN {TRUE} ELSE BOOLEAN

\* Rng::random_range(lo..hi)
RandomRange(lo, hi) == lo..(hi - 1)

\* Attack::conduct with the two draws made explicit: hitDraw is the
\* random_bool(hit_chance) draw, dmgDraw the random_range(damage) draw that
\* is only made when hitDraw is true
\* conduct without the NonZero::new: a drawn 0 is a Hit
conduct_hit_zero(hitDraw, dmgDraw) ==
    IF ~hitDraw THEN Miss ELSE Hit(dmgDraw)

conduct(hitDraw, dmgDraw) ==
    IF ~hitDraw THEN Miss
    ELSE IF NonZeroNew(dmgDraw) = None THEN Miss
    ELSE Hit(Get(NonZeroNew(dmgDraw)))


\* f32 arithmetic on numbers counted in units of 2^-23: a product is
\* rounded to the 24 significant bits of an f32, to nearest, ties to even
RECURSIVE UlpOf(_, _)
UlpOf(p, u) == IF p \div 2^24 < u THEN u ELSE UlpOf(p, u * 2)

RoundToF32(p) ==
    LET u == UlpOf(p, 1)
        q == p \div u
        r == p % u
    IN IF 2 * r > u \/ (2 * r = u /\ q % 2 = 1) THEN (q + 1) * u ELSE q * u

\* DAMAGE_MULTIPLIER: f32 = 1.2, the f32 nearest to 12/10, in units of 2^-23
DAMAGE_MULTIPLIER == (12 * 2^23 + 5) \div 10

\* an extra damage rounded to the nearest integer instead of cut off
ExtraDamage_rounded(d) ==
    (RoundToF32(d * DAMAGE_MULTIPLIER) + 2^22) \div 2^23

\* (damage.get() as f32 * DAMAGE_MULTIPLIER) as u32: d is exact as an f32,
\* the product is rounded to an f32, the cast to u32 cuts the fraction off
ExtraDamage(d) == RoundToF32(d * DAMAGE_MULTIPLIER) \div 2^23

\* ------------------------------------------------------------- the roster
\* speeds with which the rogue is not the fastest actor
SpeedOf_slow_rogue(name) ==
    CASE name = "Warrior" -> 4 [] name = "Priestess" -> 5 [] name = "Theif" -> 3
      [] name = "Ogre" -> 2 [] name = "Goblin" -> 5 [] name = "Skeleton" -> 3
      [] name = "UnknownJim" -> 1

\* AttackSpeed::from_name
SpeedOf(name) ==
    CASE name = "Warrior" -> 4 [] name = "Priestess" -> 5 [] name = "Theif" -> 6
      [] name = "Ogre" -> 2 [] name = "Goblin" -> 5 [] name = "Skeleton" -> 3
      [] name = "UnknownJim" -> 1

\* BlockChance::from_name, in percent
BlockOf(name) ==
    CASE name = "Warrior" -> 50 [] name = "Priestess" -> 10 [] name = "Theif" -> 30
      [] name = "Ogre" -> 20 [] name = "Goblin" -> 40 [] name = "Skeleton" -> 20
      [] name = "UnknownJim" -> 10

\* hit_chance of Attack::from_name, in percent
HitChanceOf(name) ==
    CASE name = "Warrior" -> 80 [] name = "Priestess" -> 70 [] name = "Theif" -> 80
      [] name = "Ogre" -> 60 [] name = "Goblin" -> 80 [] name = "Skeleton" -> 80
      [] name = "UnknownJim" -> 0

\* ActorBundle::from_name: the stat components of an actor.  The damage
\* range and the max health are scaled to the bounds.
ActorStats(name, team) ==
    [name |-> name, team |-> team, speed |-> SpeedOf(name),
     lo |-> 1, hi |-> MaxAmount, hit |-> HitChanceOf(name),
     block |-> BlockOf(name)]

\* setup_party: Warrior, Priestess, Theif are entities 1, 2, 3
PartyNames == <<"Warrior", "Priestess", "Theif">>
Party == 1..3
PartyStats == [e \in Party |-> ActorStats(PartyNames[e], "Player")]

\* the enemies of a Combat room (ActorName::get_enemies draws one to three
\* of Goblin, Ogre, Skeleton); they become entities 4, 5, ...
EnemyGroups == {<<"Goblin">>, <<"Ogre", "Skeleton">>}
EnemyIds(g) == {3 + i : i \in 1..Len(g)}

\* the two-actor scenario of the end-to-end test property: an Allied actor
\* of speed 5, 100/100 HP, damage 10..20, hit chance 1, block 0 and an
\* Opposing actor of speed 1, 1 HP, block 0
ScenarioStats ==
    (1 :> [name |-> "Warrior", team |-> "Player", speed |-> 5,
           lo |-> 10, hi |-> 20, hit |-> 100, block |-> 0])
    @@ (4 :> [name |-> "UnknownJim", team |-> "Enemy", speed |-> 1,
              lo |-> 0, hi |-> 1, hit |-> 0, block |-> 0])
ScenarioHealth == (1 :> HealthNew(100)) @@ (4 :> HealthNew(1))

\* RoomInfo { cleared, r_type }; damage is the amount of a Pit room and
\* enemies the names of a Combat room
RoomTypes == {"EmptyRoom", "Combat", "Pit"}
Rooms ==
    [r_type : {"EmptyRoom"}, cleared : BOOLEAN, damage : {0}, enemies : {<<>>}]
    \cup [r_type : {"Combat"}, cleared : BOOLEAN, damage : {0}, enemies : EnemyGroups]
    \cup [r_type : {"Pit"}, cleared : BOOLEAN, damage : 0..MaxAmount, enemies : {<<>>}]

\* --------------------------------------------------------------- the state
VARIABLES
    gameState,    \* GameState
    combatState,  \* CombatState, "None" outside of combat
    pc,           \* position inside the current state: "enter" before its
                  \* OnEnter systems ran, then "update", "trigger", "pause",
                  \* "idle"
    room,         \* RoomInfo of the CurrentRoom
    actors,       \* entity -> stat components, for every spawned actor
    health,       \* entity -> Health
    queue,        \* TurnOrder.queue
    acting,       \* the entities that carry the ActingActor marker
    action,       \* the ActingActorAction resource
    panic,        \* "none", or the place at which the program panicked
    prev,         \* history: the turn that ended last in this combat
    last,         \* history: how perform_action resolved the running turn
    queue0,       \* history: the queue setup_turn_order built
    lap,          \* history, kept when lap.on: the turns begun since a
                  \* turn of the watched actor, and the actors that were
                  \* alive ever since
    h, hPrev, op, \* a Health under test, its value before the last
                  \* operation, the last operation
    roster, qPrev, res, \* scheduler under test: query order, queue before
                  \* the last operation, last result
    old,          \* the HealthOld next to the Health under test
    event,        \* the HealthChange triggered by the last kill_heal_revive
    changed,      \* Changed<Health>: the Health under test was accessed
                  \* mutably since kill_heal_revive last ran
    attack,       \* the Attack profile under test
    stream,       \* the values the generator yields for the room's seed
    rng,          \* run -> number of values the run's EventRng has yielded
    outs          \* run -> the results of the run's conduct calls

vars == <<gameState, combatState, pc, room, actors, health, queue, acting,
          action, panic, prev, last, queue0, lap, h, hPrev, op, roster,
          qPrev, res, old, event, changed, attack, stream, rng, outs>>

histVars == <<last, queue0, lap>>
gameVars == <<gameState, combatState, pc, room, actors, health, queue, acting,
              action, panic, prev, histVars>>
healthVars == <<h, hPrev, op>>
schedVars == <<roster, qPrev, res>>
detectVars == <<old, event, changed>>
attackVars == <<attack, stream, rng, outs>>

NoAction == [type |-> "None", target |-> 0]
NoPrev == [actor |-> 0, type |-> "None"]
NoOp == [name |-> "none", amount |-> 0]
NoLast == [actor |-> 0, type |-> "None", target |-> 0, result |-> <<>>,
           blocked |-> FALSE, draws |-> <<>>, before |-> <<>>]
NoLap == [on |-> FALSE, watch |-> 0, open |-> FALSE, turns |-> <<>>,
          stayed |-> {}, special |-> FALSE]
NoHistory == last = NoLast /\ queue0 = <<>>

Entities == DOMAIN actors

\* all orders in which a query can yield the entities of S
Perms(S) ==
    {p \in [1..Cardinality(S) -> S] : \A i, j \in 1..Cardinality(S) : i # j => p[i] # p[j]}

\* the actors of the queue that are not on `team`, dead or alive
Targets_any_life(team) ==
    {e \in {queue[i] : i \in 1..Len(queue)} : actors[e].team # team}

\* the living actors of the queue that are not on `team`
    \* (choose_action, choose_target, choose_special_target)
Targets(team) ==
    {e \in {queue[i] : i \in 1..Len(queue)} :
        is_alive(health[e]) /\ actors[e].team # team}

\* ------------------------------------------------------------------- Init
\* a new game (HealthBundle::from_name) starts every member at max; a
\* loaded game (HealthBundle::with_current in load_actors) at the saved
\* current health, which load_actors can read for a living member only
PartyHealths == [Party -> {with_current(c, MaxHP) : c \in 1..MaxHP}]

\* no HealthOld, no Attack under test
IdleDetect == old = None /\ event = None /\ changed = FALSE
IdleAttack ==
    /\ attack = [lo |-> 0, hi |-> 1, hit |-> 0] /\ stream = <<>>
    /\ rng = <<>> /\ outs = <<>>

IdleTest ==
    /\ h = HealthNew(1) /\ hPrev = HealthNew(1) /\ op = NoOp
    /\ roster = <<>> /\ qPrev = <<>> /\ res = "none"
    /\ IdleDetect /\ IdleAttack

\* the game starts in GameState::EnterRoom with the party spawned
InitGame ==
    /\ gameState = "EnterRoom" /\ combatState = "None" /\ pc = "enter"
    /\ room \in Rooms
    /\ actors = PartyStats
    /\ health \in PartyHealths
    /\ queue = <<>> /\ acting = {} /\ action = NoAction
    /\ panic = "none" /\ prev = NoPrev /\ NoHistory

\* the two-actor scenario, at the moment GameState::Combat is entered
InitScenario ==
    /\ gameState = "Combat" /\ combatState = "None" /\ pc = "enter"
    /\ room = [r_type |-> "Combat", cleared |-> FALSE, damage |-> 0,
               enemies |-> <<"UnknownJim">>]
    /\ actors = ScenarioStats
    /\ health = ScenarioHealth
    /\ queue = <<>> /\ acting = {} /\ action = NoAction
    /\ panic = "none" /\ prev = NoPrev /\ NoHistory

Init == InitGame /\ lap = NoLap /\ IdleTest

Running == panic = "none"

\* ------------------------------------------------------------ the room loop
\* OnEnter(GameState::EnterRoom): despawn the InRoom entities, spawn the
\* entities of the room, change_state(TriggerEvent)
spawn_room_entities ==
    /\ Running /\ gameState = "EnterRoom"
    /\ LET kept == {e \in Entities : actors[e].team = "Player"}
           g == room.enemies
           new == IF room.r_type = "Combat" THEN EnemyIds(g) ELSE {}
       IN /\ actors' = [e \in kept \cup new |->
                           IF e \in kept THEN actors[e]
                           ELSE ActorStats(g[e - 3], "Enemy")]
          /\ health' = [e \in kept \cup new |->
                           IF e \in kept THEN health[e]
                           ELSE IF room.cleared THEN kill(HealthNew(MaxHP))
                                ELSE HealthNew(MaxHP)]
          /\ acting' = acting \cap kept
    /\ gameState' = "TriggerEvent" /\ pc' = "enter"
    /\ UNCHANGED <<combatState, room, queue, action, panic, prev>>
    /\ UNCHANGED <<histVars, healthVars, schedVars, detectVars, attackVars>>

\* OnEnter(GameState::TriggerEvent)
display_trigger_or_skip ==
    /\ Running /\ gameState = "TriggerEvent" /\ pc = "enter"
    /\ IF room.cleared \/ room.r_type = "EmptyRoom"
       THEN gameState' = "Navigation" /\ pc' = "enter"
       ELSE gameState' = gameState /\ pc' = "trigger"
    /\ UNCHANGED <<combatState, room, actors, health, queue, acting, action,
                   panic, prev>>
    /\ UNCHANGED <<histVars, healthVars, schedVars, detectVars, attackVars>>

\* wait_for_trigger when the trigger timer finishes: trigger_event
trigger_event ==
    /\ Running /\ gameState = "TriggerEvent" /\ pc = "trigger"
    /\ LET alive == {e \in Entities : is_alive(health[e])}
       IN IF room.r_type = "Pit"
          THEN IF alive = {}
               THEN /\ panic' = "trigger_event"
                    /\ UNCHANGED <<health, pc>>
               ELSE /\ \E e \in alive :
                          health' = [health EXCEPT
                                       ![e] = damage_no_one_shot(@, room.damage)]
                    /\ pc' = "pause"
                    /\ UNCHANGED panic
          ELSE pc' = "pause" /\ UNCHANGED <<health, panic>>
    /\ UNCHANGED <<gameState, combatState, room, actors, queue, acting, action,
                   prev>>
    /\ UNCHANGED <<histVars, healthVars, schedVars, detectVars, attackVars>>

\* wait_for_trigger when the pause timer finishes
wait_for_trigger ==
    /\ Running /\ gameState = "TriggerEvent" /\ pc = "pause"
    /\ gameState' = IF room.r_type = "Combat" THEN "Combat" ELSE "Navigation"
    /\ pc' = "enter"
    /\ UNCHANGED <<combatState, room, actors, health, queue, acting, action,
                   panic, prev>>
    /\ UNCHANGED <<histVars, healthVars, schedVars, detectVars, attackVars>>

\* OnEnter(GameState::Navigation): mark_room_cleared
mark_room_cleared ==
    /\ Running /\ gameState = "Navigation" /\ pc = "enter"
    /\ room' = [room EXCEPT !.cleared = TRUE]
    /\ pc' = "update"
    /\ UNCHANGED <<gameState, combatState, actors, health, queue, acting,
                   action, panic, prev>>
    /\ UNCHANGED <<histVars, healthVars, schedVars, detectVars, attackVars>>

\* click_door: another room becomes the CurrentRoom
click_door ==
    /\ Running /\ gameState = "Navigation" /\ pc = "update"
    /\ room' \in Rooms
    /\ gameState' = "EnterRoom" /\ pc' = "enter"
    /\ UNCHANGED <<combatState, actors, health, queue, acting, action, panic,
                   prev>>
    /\ UNCHANGED <<histVars, healthVars, schedVars, detectVars, attackVars>>

\* ------------------------------------------------------------------ combat
InCombat(cs, p) ==
    Running /\ gameState = "Combat" /\ combatState = cs /\ pc = p

\* Single<.., With<ActingActor>>: the system runs only with exactly one marked
\* entity
SingleActing == Cardinality(acting) = 1
TheActing == CHOOSE e \in acting : TRUE

\* the record of the turns: a combat starts with no actor watched
LapAtSetup(l) == IF l.on THEN [NoLap EXCEPT !.on = TRUE] ELSE l

\* the turn of x begins while `living` are the living actors. A turn of
\* the watched actor ends the record; any turn may start a new record, which
\* watches its actor (start); any other turn is added to a running record.
\* Nothing is recorded once the rogue took a special action in the combat
LapAtTurn(l, x, living, n, start) ==
    IF ~l.on \/ l.special THEN l
    ELSE IF ~l.open \/ x = l.watch
         THEN IF start
              THEN [l EXCEPT !.watch = x, !.open = TRUE, !.turns = <<>>,
                             !.stayed = living]
              ELSE [NoLap EXCEPT !.on = TRUE]
    ELSE IF Len(l.turns) <= n
         THEN [l EXCEPT !.turns = Append(@, x)]
    ELSE l

\* an action was performed and left `living` alive
LapAtAction(l, living, rogue) ==
    IF ~l.on \/ l.special THEN l
    ELSE IF rogue
         THEN [NoLap EXCEPT !.on = TRUE, !.special = TRUE]
    ELSE [l EXCEPT !.stayed = @ \cap living]

\* the combat is over
LapAtExit(l, to) ==
    IF l.on /\ to # "Combat" THEN [NoLap EXCEPT !.on = TRUE] ELSE l

LivingIn(hl) == {e \in DOMAIN hl : is_alive(hl[e])}

\* OnEnter(GameState::Combat): setup_turn_order; the sub state starts in
\* its default, TurnSetup
setup_turn_order ==
    /\ Running /\ gameState = "Combat" /\ combatState = "None"
    /\ \E r \in Perms(Entities) : queue' = TurnOrderNew(r, actors)
    /\ combatState' = "TurnSetup" /\ pc' = "enter"
    /\ prev' = NoPrev /\ last' = NoLast /\ queue0' = queue'
    /\ lap' = LapAtSetup(lap)
    /\ UNCHANGED <<gameState, room, actors, health, acting, action, panic>>
    /\ UNCHANGED <<healthVars, schedVars, detectVars, attackVars>>

\* OnEnter(CombatState::TurnSetup)
prep_turn_order ==
    /\ InCombat("TurnSetup", "enter")
    /\ IF teams_alive(queue, health, actors) = "Both"
       THEN /\ acting' = acting \cup {active(queue)}
            /\ combatState' = "MoveToCenter" /\ pc' = "enter"
            /\ \E start \in BOOLEAN :
                  lap' = LapAtTurn(lap, active(queue), LivingIn(health),
                                   Len(queue), start)
       ELSE /\ acting' = acting \ {active(queue)}
            /\ combatState' = combatState /\ pc' = "idle"
            /\ lap' = lap
    /\ UNCHANGED <<gameState, room, actors, health, queue, action, panic, prev>>
    /\ UNCHANGED <<last, queue0, healthVars, schedVars, detectVars, attackVars>>

\* OnEnter(CombatState::MoveToCenter)
move_to_center ==
    /\ InCombat("MoveToCenter", "enter") /\ SingleActing
    /\ pc' = "update"
    /\ UNCHANGED <<gameState, combatState, room, actors, health, queue, acting,
                   action, panic, prev>>
    /\ UNCHANGED <<histVars, healthVars, schedVars, detectVars, attackVars>>

\* Update in MoveToCenter, once the actor has arrived
move_to_center_check ==
    /\ InCombat("MoveToCenter", "update") /\ SingleActing
    /\ combatState' = "CheckTeam" /\ pc' = "enter"
    /\ UNCHANGED <<gameState, room, actors, health, queue, acting, action,
                   panic, prev>>
    /\ UNCHANGED <<histVars, healthVars, schedVars, detectVars, attackVars>>

\* OnEnter(CombatState::CheckTeam)
check_team ==
    /\ InCombat("CheckTeam", "enter")
    /\ \E e \in acting :
          combatState' = IF actors[e].team = "Player" THEN "SpawnMenu"
                         ELSE "MonsterAttack"
    /\ pc' = "enter"
    /\ UNCHANGED <<gameState, room, actors, health, queue, acting, action,
                   panic, prev>>
    /\ UNCHANGED <<histVars, healthVars, schedVars, detectVars, attackVars>>

\* OnEnter(CombatState::SpawnMenu)
create_attack_menu ==
    /\ InCombat("SpawnMenu", "enter")
    /\ pc' = "update"
    /\ UNCHANGED <<gameState, combatState, room, actors, health, queue, acting,
                   action, panic, prev>>
    /\ UNCHANGED <<histVars, healthVars, schedVars, detectVars, attackVars>>

\* targets[rng.random_range(0..targets.len())]: panics on an empty list
ChooseFrom(targets, where, type) ==
    IF targets = {}
    THEN panic' = where /\ UNCHANGED <<action, combatState, pc>>
    ELSE /\ \E t \in targets : action' = [type |-> type, target |-> t]
         /\ combatState' = "PerformAction" /\ pc' = "enter"
         /\ UNCHANGED panic

\* OnEnter(CombatState::MonsterAttack)
choose_action ==
    /\ InCombat("MonsterAttack", "enter") /\ SingleActing
    /\ ChooseFrom(Targets(actors[TheActing].team), "choose_action", "Attack")
    /\ UNCHANGED <<gameState, room, actors, health, queue, acting, prev>>
    /\ UNCHANGED <<histVars, healthVars, schedVars, detectVars, attackVars>>

\* click on the basic attack button: choose_target
basic_attack ==
    /\ InCombat("SpawnMenu", "update") /\ SingleActing
    /\ ChooseFrom(Targets(actors[TheActing].team), "choose_target", "Attack")
    /\ UNCHANGED <<gameState, room, actors, health, queue, acting, prev>>
    /\ UNCHANGED <<histVars, healthVars, schedVars, detectVars, attackVars>>

\* the Priestess branch of choose_special_target: the members of the own
\* team in queue order, a dead one counted as 0, stably sorted by current
\* health; the first one is taken
PriestessTarget(team) ==
    LET idx == {i \in 1..Len(queue) : actors[queue[i]].team = team}
        cur(i) == UnwrapOr0(health[queue[i]].current)
        best == CHOOSE i \in idx :
                   \A j \in idx : cur(i) < cur(j) \/ (cur(i) = cur(j) /\ i <= j)
    IN queue[best]

\* click on the special move button: choose_special_target
special_move ==
    /\ InCombat("SpawnMenu", "update") /\ SingleActing
    /\ IF actors[TheActing].name = "Priestess"
       THEN ChooseFrom({PriestessTarget(actors[TheActing].team)},
                       "choose_special_target", "SpecialAction")
       ELSE ChooseFrom(Targets(actors[TheActing].team),
                       "choose_special_target", "SpecialAction")
    /\ UNCHANGED <<gameState, room, actors, health, queue, acting, prev>>
    /\ UNCHANGED <<histVars, healthVars, schedVars, detectVars, attackVars>>

\* a resolved attack whose Hit lands whether or not the target blocks
ApplyAttack_ignores_block(t, result, blocked) ==
    IF result # Miss
    THEN [health EXCEPT ![t] = damage(@, result[2])]
    ELSE health

\* the effect of a resolved attack on the health table: a Hit(d) that the
\* target does not block applies damage(d); Miss and a blocked Hit nothing
ApplyAttack(t, result, blocked) ==
    IF result # Miss /\ ~blocked
    THEN [health EXCEPT ![t] = damage(@, result[2])]
    ELSE health

\* attack.conduct(&mut rng) with the values it draws: the hit roll, and the
\* damage only after a successful hit roll
ConductOutcomes(a) ==
    {[result |-> conduct(hitDraw, dmgDraw),
      draws |-> IF hitDraw THEN <<"hit", "damage">> ELSE <<"hit">>] :
        hitDraw \in RandomBool(a.hit), dmgDraw \in RandomRange(a.lo, a.hi)}

\* a block roll drawn whatever the attack result is
BlockRolled_always(result) == TRUE

\* rng.random_bool(block_chance.0) sits inside `if let AttackDamage::Hit`
BlockRolled(result) == result # Miss

\* the arms Action::Attack and SpecialAction of the rogue: conduct, then on
\* a Hit the block roll of the target, then damage unless blocked
AttackOutcomes(a, t) ==
    UNION {IF BlockRolled(c.result)
           THEN {[result |-> c.result, blocked |-> blocked,
                  draws |-> Append(c.draws, "block"),
                  health |-> ApplyAttack(t, c.result, blocked)] :
                     blocked \in RandomBool(actors[t].block)}
           ELSE {[result |-> c.result, blocked |-> FALSE, draws |-> c.draws,
                  health |-> ApplyAttack(t, c.result, FALSE)]} :
              c \in ConductOutcomes(a)}

\* the arm SpecialAction of the brute: conduct, on a Hit damage(extra_damage)
WarriorOutcomes(a, t) ==
    {[result |-> c.result, blocked |-> FALSE, draws |-> c.draws,
      health |-> IF c.result # Miss
                 THEN [health EXCEPT ![t] = damage(@, ExtraDamage(c.result[2]))]
                 ELSE health] : c \in ConductOutcomes(a)}

\* the arm SpecialAction of the healer: heal_or_revive(random_range(15..30)),
\* the range scaled to the health bound
PriestessOutcomes(t) ==
    {[result |-> <<"Heal", heal_num>>, blocked |-> FALSE, draws |-> <<"heal">>,
      health |-> [health EXCEPT ![t] = heal_or_revive(@, heal_num)]] :
         heal_num \in RandomRange(1, MaxAmount)}

\* the match of perform_action on the action and the name of the actor
ActionOutcomes(a, act) ==
    CASE act.type = "Attack" -> AttackOutcomes(a, act.target)
      [] act.type = "SpecialAction" /\ a.name = "Warrior" ->
            WarriorOutcomes(a, act.target)
      [] act.type = "SpecialAction" /\ a.name = "Priestess" ->
            PriestessOutcomes(act.target)
      [] act.type = "SpecialAction" /\ a.name = "Theif" ->
            AttackOutcomes(a, act.target)
      [] OTHER -> {[result |-> <<>>, blocked |-> FALSE, draws |-> <<>>,
                    health |-> health]}

\* OnEnter(CombatState::PerformAction)
perform_action ==
    /\ InCombat("PerformAction", "enter") /\ SingleActing
    /\ \E o \in ActionOutcomes(actors[TheActing], action) :
          /\ health' = o.health
          /\ last' = [actor |-> TheActing, type |-> action.type,
                      target |-> action.target, result |-> o.result,
                      blocked |-> o.blocked, draws |-> o.draws,
                      before |-> health]
    /\ lap' = LapAtAction(lap, LivingIn(health'),
                          /\ actors[TheActing].name = "Theif"
                          /\ action.type = "SpecialAction")
    /\ combatState' = "MoveBack" /\ pc' = "enter"
    /\ UNCHANGED <<gameState, room, actors, queue, acting, action, panic, prev>>
    /\ UNCHANGED <<queue0, healthVars, schedVars, detectVars, attackVars>>

\* OnEnter(CombatState::MoveBack)
move_back ==
    /\ InCombat("MoveBack", "enter") /\ SingleActing
    /\ pc' = "update"
    /\ UNCHANGED <<gameState, combatState, room, actors, health, queue, acting,
                   action, panic, prev>>
    /\ UNCHANGED <<histVars, healthVars, schedVars, detectVars, attackVars>>

\* Update in MoveBack, once the actor has arrived
move_back_check ==
    /\ InCombat("MoveBack", "update") /\ SingleActing
    /\ combatState' = "EndOfTurn" /\ pc' = "enter"
    /\ UNCHANGED <<gameState, room, actors, health, queue, acting, action,
                   panic, prev>>
    /\ UNCHANGED <<histVars, healthVars, schedVars, detectVars, attackVars>>

\* an end_turn without the exception for the rogue
KeepsTurn_never(name, type) == FALSE

\* the condition under which end_turn leaves the turn with the actor
KeepsTurn(name, type) == name = "Theif" /\ type = "SpecialAction"

\* the match on teams_alive at the end of end_turn
AfterTurn(alive) ==
    CASE alive = "Both" -> [game |-> "Combat", combat |-> "TurnSetup"]
      [] alive = "Player" -> [game |-> "Navigation", combat |-> "None"]
      [] alive = "Enemy" -> [game |-> "GameOver", combat |-> "None"]
      [] alive = "Neither" -> [game |-> "GameOver", combat |-> "None"]

\* OnEnter(CombatState::EndOfTurn)
end_turn ==
    /\ InCombat("EndOfTurn", "enter") /\ SingleActing
    /\ LET keeps == KeepsTurn(actors[TheActing].name, action.type)
           next == FindNextLiving(queue, health)
       IN IF ~keeps /\ next = None
          THEN \* the unwrap of skip_to_next
               /\ panic' = "skip_to_next"
               /\ UNCHANGED <<gameState, combatState, pc, queue, acting, action,
                              prev, last, lap>>
          ELSE /\ queue' = IF keeps THEN queue ELSE skip_to_next(queue, health)
               /\ acting' = IF keeps THEN acting ELSE acting \ {active(queue)}
               /\ action' = NoAction
               /\ LET to == AfterTurn(teams_alive(queue', health, actors))
                  IN gameState' = to.game /\ combatState' = to.combat
               /\ pc' = "enter"
               /\ prev' = [actor |-> TheActing, type |-> action.type]
               /\ last' = NoLast
               /\ lap' = LapAtExit(lap, gameState')
               /\ UNCHANGED panic
    /\ UNCHANGED <<room, actors, health>>
    /\ UNCHANGED <<queue0, healthVars, schedVars, detectVars, attackVars>>

Next ==
    \/ spawn_room_entities \/ display_trigger_or_skip \/ trigger_event
    \/ wait_for_trigger \/ mark_room_cleared \/ click_door
    \/ setup_turn_order \/ prep_turn_order \/ move_to_center
    \/ move_to_center_check \/ check_team \/ create_attack_menu
    \/ choose_action \/ basic_attack \/ special_move \/ perform_action
    \/ move_back \/ move_back_check \/ end_turn

Spec == Init /\ [][Next]_vars

\* the game, and next to it the combat systems started on the two-actor
\* scenario
InitWithScenario == (InitGame \/ InitScenario) /\ lap = NoLap /\ IdleTest
SpecScenario == InitWithScenario /\ [][Next]_vars

\* a saved game in which every member of the party has one health point
\* left, under the scheduler of the engine: a system whose state is entered,
\* or whose timer or animation runs, is run in some later frame
InitWounded == Init /\ \A e \in Party : health[e] = with_current(1, MaxHP)
SpecFair == InitWounded /\ [][Next]_vars /\ WF_vars(Next)

\* the game with the record of the turns kept
InitRecorded == InitGame /\ lap = [NoLap EXCEPT !.on = TRUE] /\ IdleTest
SpecRecorded == InitRecorded /\ [][Next]_vars

\* ----------------------------------------------- Health operations alone
\* no game is running
IdleGame ==
    /\ gameState = "Menu" /\ combatState = "None" /\ pc = "idle"
    /\ room = [r_type |-> "EmptyRoom", cleared |-> TRUE, damage |-> 0,
               enemies |-> <<>>]
    /\ queue = <<>> /\ acting = {} /\ action = NoAction
    /\ panic = "none" /\ prev = NoPrev /\ NoHistory /\ lap = NoLap

\* any Health with current <= max
InitHealth ==
    /\ IdleGame /\ actors = <<>> /\ health = <<>>
    /\ roster = <<>> /\ qPrev = <<>> /\ res = "none"
    /\ \E m \in 1..MaxTestHP : \E c \in 0..m : h = with_current(c, m)
    /\ hPrev = h /\ op = NoOp
    /\ IdleDetect /\ IdleAttack

Apply(name, amount, result) ==
    /\ h' = result /\ hPrev' = h /\ op' = [name |-> name, amount |-> amount]
    /\ UNCHANGED <<gameVars, schedVars, detectVars, attackVars>>

TestAmounts == 0..MaxTestAmount

do_heal == \E a \in TestAmounts : Apply("heal", a, heal(h, a))
do_heal_or_revive ==
    \E a \in TestAmounts : Apply("heal_or_revive", a, heal_or_revive(h, a))
do_damage == \E a \in TestAmounts : Apply("damage", a, damage(h, a))
do_damage_no_kill ==
    \E a \in TestAmounts : Apply("damage_no_kill", a, damage_no_kill(h, a))
do_damage_endurence ==
    \E a \in TestAmounts : Apply("damage_endurence", a, damage_endurence(h, a))
do_damage_no_one_shot ==
    \E a \in TestAmounts : Apply("damage_no_one_shot", a, damage_no_one_shot(h, a))
do_kill == Apply("kill", 0, kill(h))


NextHealth ==
    \/ do_heal \/ do_heal_or_revive \/ do_damage \/ do_damage_no_kill
    \/ do_damage_endurence \/ do_damage_no_one_shot \/ do_kill

SpecHealth == InitHealth /\ [][NextHealth]_vars

\* C13: damage(a) on an alive Health with current c and a > 0 gives dead
\* when a >= c and current c - a otherwise; damage(0) and damage of a dead
\* Health change nothing.
C13_DamageResult ==
    op.name = "damage" =>
        IF hPrev.current # <<>> /\ op.amount > 0
        THEN /\ h.max = hPrev.max
             /\ op.amount >= hPrev.current[1] => h.current = <<>>
             /\ op.amount < hPrev.current[1] =>
                    h.current = <<hPrev.current[1] - op.amount>>
        ELSE h = hPrev

\* damage of exactly the current health kills
C13_Witness ==
    /\ op = [name |-> "damage", amount |-> 5]
    /\ hPrev = [current |-> <<5>>, max |-> 10]
    /\ h = [current |-> <<>>, max |-> 10]

\* C14: damage_no_kill(a) turns an alive current c into max(c - a, 1), the
\* same c for a = 0, and never into dead; a dead Health stays dead.
C14_DamageNoKillNeverKills ==
    op.name = "damage_no_kill" =>
        IF hPrev.current # <<>>
        THEN /\ h.max = hPrev.max
             /\ h.current # <<>>
             /\ h.current =
                   <<IF hPrev.current[1] - op.amount >= 1
                     THEN hPrev.current[1] - op.amount ELSE 1>>
        ELSE h = hPrev

\* a Health already at 1 takes the largest amount and stays at 1
C14_Witness ==
    /\ op = [name |-> "damage_no_kill", amount |-> MaxTestAmount]
    /\ hPrev = [current |-> <<1>>, max |-> 10]
    /\ h = [current |-> <<1>>, max |-> 10]

\* C15: damage_endurence(a) with a > 0 on an alive Health gives max(c - a, 1)
\* when the current c is above 1 and dead when c is exactly 1; a = 0 or a
\* dead Health change nothing.  From 5/10: 2 gives 3, then 5 gives 1, then 5
\* gives dead.
C15_DamageEndurenceResult ==
    op.name = "damage_endurence" =>
        /\ IF hPrev.current # <<>> /\ op.amount > 0
           THEN /\ h.max = hPrev.max
                /\ hPrev.current[1] > 1 =>
                      h.current =
                        <<IF hPrev.current[1] - op.amount >= 1
                          THEN hPrev.current[1] - op.amount ELSE 1>>
                /\ hPrev.current[1] = 1 => h.current = <<>>
           ELSE h = hPrev
        /\ (hPrev = [current |-> <<5>>, max |-> 10] /\ op.amount = 2) =>
              h.current = <<3>>
        /\ (hPrev = [current |-> <<3>>, max |-> 10] /\ op.amount = 5) =>
              h.current = <<1>>
        /\ (hPrev = [current |-> <<1>>, max |-> 10] /\ op.amount = 5) =>
              h.current = <<>>

\* the last step of the example: at 1 of 10, damaging 5 gives dead
C15_Witness ==
    /\ op = [name |-> "damage_endurence", amount |-> 5]
    /\ hPrev = [current |-> <<1>>, max |-> 10]
    /\ h = [current |-> <<>>, max |-> 10]

C17_HealNeverRevives ==
    op.name = "heal" =>
        /\ hPrev.current = <<>> => h = hPrev
        /\ op.amount = 0 => h = hPrev
        /\ hPrev.current # <<>> =>
              /\ h.max = hPrev.max
              /\ h.current =
                    <<IF hPrev.current[1] + op.amount <= hPrev.max
                      THEN hPrev.current[1] + op.amount ELSE hPrev.max>>

\* a dead Health was healed by a positive amount and is still dead
C17_Witness ==
    /\ op = [name |-> "heal", amount |-> 1]
    /\ hPrev = [current |-> <<>>, max |-> 10]
    /\ h = [current |-> <<>>, max |-> 10]

\* C18: heal_or_revive(a) with a > 0 gives current min(c + a, max), c being
\* the previous current and 0 for a dead Health, so a dead Health is revived
\* to min(a, max); heal_or_revive(0) changes nothing; and no other operation
\* leaves a Health alive that was dead before it.
C18_HealOrReviveResult ==
    /\ op.name = "heal_or_revive" =>
          LET c == IF hPrev.current = <<>> THEN 0 ELSE hPrev.current[1]
          IN IF op.amount > 0
             THEN /\ h.max = hPrev.max
                  /\ h.current =
                        <<IF c + op.amount <= hPrev.max
                          THEN c + op.amount ELSE hPrev.max>>
             ELSE h = hPrev
    /\ (hPrev.current = <<>> /\ h.current # <<>>) => op.name = "heal_or_revive"

\* a dead Health is revived to its max by a larger amount
C18_Witness ==
    /\ op = [name |-> "heal_or_revive", amount |-> MaxTestAmount]
    /\ hPrev = [current |-> <<>>, max |-> 10]
    /\ h = [current |-> <<10>>, max |-> 10]

\* ------------------------------------------------ Attack::conduct alone
\* The generator as the sequence s of the values it yields for its seed and
\* the number n of values it has yielded; every call of the generator takes
\* the next value.
\* Rng::random_bool(p) on the value w, p in percent: true for the share p of
\* the values
random_bool(w, p) == w * 100 < p * NumWords

\* Rng::random_range(lo..hi) on the value w
random_range(w, lo, hi) == lo + (w % (hi - lo))

\* conduct on a generator that the two runs share: it has yielded what
\* both of them have drawn
conduct_rng_shared(a, s, n) ==
    LET m == rng[1] + rng[2]
        hitDraw == random_bool(s[(m % Len(s)) + 1], a.hit)
        dmgDraw == IF hitDraw THEN random_range(s[((m + 1) % Len(s)) + 1], a.lo, a.hi)
                   ELSE 0
    IN [damage |-> conduct(hitDraw, dmgDraw),
        rng |-> n + (IF hitDraw THEN 2 ELSE 1)]

\* Attack::conduct(&self, rng) on the generator (s, n): the AttackDamage and
\* the number of values the generator has yielded afterwards.  The
\* random_range is only called (.then) when the random_bool was true.
conduct_rng(a, s, n) ==
    LET hitDraw == random_bool(s[n + 1], a.hit)
        dmgDraw == IF hitDraw THEN random_range(s[n + 2], a.lo, a.hi) ELSE 0
    IN [damage |-> conduct(hitDraw, dmgDraw),
        rng |-> n + (IF hitDraw THEN 2 ELSE 1)]

\* two runs of the same room: each has its own EventRng, seeded from the
\* room's rng_seed
Runs == {1, 2}
\* hit chances of Attack::from_name, in percent
TestHits == {0, 60, 80, 100}

\* any Attack with a non-empty damage range, any stream of the generator,
\* and both runs seeded: their generators have yielded nothing
InitAttack ==
    /\ IdleGame /\ actors = <<>> /\ health = <<>>
    /\ roster = <<>> /\ qPrev = <<>> /\ res = "none"
    /\ h = HealthNew(1) /\ hPrev = HealthNew(1) /\ op = NoOp
    /\ IdleDetect
    /\ \E lo \in 0..1 : \E span \in 1..MaxSpan : \E hit \in TestHits :
          attack = [lo |-> lo, hi |-> lo + span, hit |-> hit]
    /\ stream \in [1..MaxDraws -> 0..(NumWords - 1)]
    /\ rng = [r \in Runs |-> 0]
    /\ outs = [r \in Runs |-> <<>>]

\* set_room_rng: run r enters the room again, its EventRng is seeded anew
\* (RandomSource::seed_from_u64(info.rng_seed)) and has yielded nothing
set_room_rng(r) ==
    /\ rng' = [rng EXCEPT ![r] = 0]
    /\ outs' = [outs EXCEPT ![r] = <<>>]
    /\ UNCHANGED <<attack, stream, gameVars, healthVars, schedVars, detectVars>>

\* run r calls attack.conduct(&mut *rng); outs records the number of values
\* the generator had yielded before and has yielded after the call, and the
\* AttackDamage
do_conduct(r) ==
    /\ rng[r] + 2 <= Len(stream)
    /\ LET c == conduct_rng(attack, stream, rng[r])
       IN /\ outs' = [outs EXCEPT ![r] =
                        Append(@, [from |-> rng[r], to |-> c.rng, damage |-> c.damage])]
          /\ rng' = [rng EXCEPT ![r] = c.rng]
    /\ UNCHANGED <<attack, stream, gameVars, healthVars, schedVars, detectVars>>

NextAttack == \E r \in Runs : set_room_rng(r) \/ do_conduct(r)

SpecAttack == InitAttack /\ [][NextAttack]_vars

\* C11: every conduct returns Miss and has taken one value from the
\* generator when the hit roll failed; returns Miss when the hit roll
\* succeeded and the drawn damage is 0; and otherwise returns Hit(d) with d
\* the drawn damage, damage.start <= d < damage.end.  It never returns
\* Hit(0).
C11_ConductMissOrHit ==
    \A r \in DOMAIN outs : \A k \in 1..Len(outs[r]) :
        LET e == outs[r][k]
            hitRoll == stream[e.from + 1] * 100 < attack.hit * NumWords
            d == attack.lo + (stream[e.from + 2] % (attack.hi - attack.lo))
        IN /\ e.damage # <<"Hit", 0>>
           /\ ~hitRoll => (e.damage = <<"Miss">> /\ e.to = e.from + 1)
           /\ (hitRoll /\ d = 0) => e.damage = <<"Miss">>
           /\ (hitRoll /\ d # 0) =>
                 /\ e.damage = <<"Hit", d>>
                 /\ attack.lo <= d /\ d < attack.hi

\* a conduct whose hit roll succeeded and whose drawn damage was 0 has
\* returned Miss
C11_Witness ==
    \E r \in DOMAIN outs : \E k \in 1..Len(outs[r]) :
        /\ outs[r][k].to = outs[r][k].from + 2
        /\ outs[r][k].damage = <<"Miss">>
        /\ attack.lo = 0

InitDetect ==
    /\ IdleGame /\ actors = <<>> /\ health = <<>>
    /\ roster = <<>> /\ qPrev = <<>> /\ res = "none"
    /\ \E m \in 1..MaxTestHP : \E c \in 0..m : h = with_current(c, m)
    /\ hPrev = h /\ op = NoOp
    /\ \E o \in 0..MaxTestHP : old = HealthOldNew(NonZeroNew(o))
    /\ event = None /\ changed = TRUE
    /\ IdleAttack

\* any of the Health operations on the entity (a mutable access, which
\* marks the Health as Changed)
mutate_health ==
    /\ \E a \in 0..MaxSnapAmount :
          h' \in {heal(h, a), heal_or_revive(h, a), damage(h, a),
                  damage_no_kill(h, a), damage_endurence(h, a),
                  damage_no_one_shot(h, a), kill(h)}
    /\ hPrev' = h /\ op' = [name |-> "mutate", amount |-> 0]
    /\ changed' = TRUE
    /\ UNCHANGED <<gameVars, schedVars, old, event, attackVars>>

\* the kill_heal_revive system: for the entity, if its Health is
\* Changed, update_old_health and trigger the HealthChange it returns.
\* op.amount records the snapshot it read, None counted as 0.
kill_heal_revive ==
    /\ IF changed
       THEN LET r == update_old_health(old, h)
            IN old' = r.old /\ event' = r.change
       ELSE old' = old /\ event' = None
    /\ changed' = FALSE
    /\ hPrev' = h /\ op' = [name |-> "kill_heal_revive", amount |-> UnwrapOr0(old)]
    /\ UNCHANGED <<h, gameVars, schedVars, attackVars>>

\* HealthOld::update_old_health called on the entity's components directly,
\* which reads the Health and so leaves Changed as it is
call_update_old_health ==
    /\ LET r == update_old_health(old, h)
       IN old' = r.old /\ event' = r.change
    /\ hPrev' = h /\ op' = [name |-> "update_old_health", amount |-> UnwrapOr0(old)]
    /\ UNCHANGED <<h, changed, gameVars, schedVars, attackVars>>

NextDetect == mutate_health \/ kill_heal_revive \/ call_update_old_health

\* the last step classified the health change
Classified(o) == o.name \in {"kill_heal_revive", "update_old_health"}

SpecDetect == InitDetect /\ [][NextDetect]_vars

\* C19: a run of kill_heal_revive or update_old_health reports, for the old snapshot and the
\* current health it finds, Killed exactly when old is alive and current is
\* dead, Revived exactly when old is dead and current is alive, Damaged
\* exactly when both are alive and current < old, Healed exactly when both
\* are alive and current > old, and no event exactly when they are equal.
C19_TransitionClassified ==
    [][Classified(op') =>
          /\ event' \in {<<>>, <<"Killed">>, <<"Revived">>, <<"Damaged">>, <<"Healed">>}
          /\ event' = <<"Killed">> <=> (old # <<>> /\ h.current = <<>>)
          /\ event' = <<"Revived">> <=> (old = <<>> /\ h.current # <<>>)
          /\ event' = <<"Damaged">> <=>
                (old # <<>> /\ h.current # <<>> /\ h.current[1] < old[1])
          /\ event' = <<"Healed">> <=>
                (old # <<>> /\ h.current # <<>> /\ h.current[1] > old[1])
          /\ event' = <<>> <=> (old = h.current)
      ]_vars

\* current 10 found with the old snapshot 5: Healed
C19_Witness ==
    /\ op = [name |-> "kill_heal_revive", amount |-> 5]
    /\ h.current = <<10>>
    /\ event = <<"Healed">>

\* C20: a classification step (kill_heal_revive, update_old_health) leaves
\* the old snapshot equal to the current health, whether or not it reported
\* an event, and a classification step that follows another one with no
\* Health operation in between reports nothing.
C20_ChangeReportedOnce ==
    /\ [](Classified(op) => old = h.current)
    /\ [][(Classified(op) /\ Classified(op')) => event' = <<>>]_vars

\* update_old_health has found the snapshot equal to the current health of
\* a Health that an operation and kill_heal_revive have gone over before,
\* and has reported nothing
C20_Witness ==
    /\ op = [name |-> "update_old_health", amount |-> 3]
    /\ h = [current |-> <<3>>, max |-> 10] /\ old = <<3>>
    /\ event = <<>> /\ changed = FALSE

\* C1: after any sequence of Health operations with arbitrary amounts the
\* current health, when present, is a single value with 1 <= current <= max,
\* max is the one the Health started with, and the Health is alive exactly
\* when its current health is at least 1 (there is no alive-at-0 state).
C1_HealthWithinBounds ==
    /\ h.current \in {<<>>} \cup {<<n>> : n \in 1..h.max}
    /\ h.max = hPrev.max
    /\ is_alive(h) <=> (h.current # <<>> /\ h.current[1] >= 1)

\* a Health at 1 was healed by more than its max and stopped at max
C1_Witness ==
    /\ op.name = "heal_or_revive" /\ op.amount = MaxTestAmount
    /\ hPrev = [current |-> <<1>>, max |-> MaxTestHP]
    /\ h = [current |-> <<MaxTestHP>>, max |-> MaxTestHP]

\* ------------------------------------------------- the scheduler alone
\* the speeds of the rosters handed to the scheduler
TestSpeeds == {2, 4, 6}

\* any roster of 1..MaxActors actors with any speed, team and life; the
\* actor query yields the entities in the order 1, 2, ..
InitSched ==
    /\ IdleGame
    /\ h = HealthNew(1) /\ hPrev = HealthNew(1) /\ op = NoOp
    /\ IdleDetect /\ IdleAttack
    /\ \E n \in 1..MaxActors :
          /\ actors \in [1..n -> [speed : TestSpeeds, team : {"Player", "Enemy"}]]
          /\ health \in [1..n -> {HealthNew(1), kill(HealthNew(1))}]
          /\ roster = [i \in 1..n |-> i]
    /\ qPrev = <<>> /\ res = "none"

SchedFrame ==
    UNCHANGED <<gameState, combatState, pc, room, actors, acting, action,
                panic, prev, histVars, h, hPrev, roster, detectVars,
                attackVars>>

\* TurnOrder::new
sched_new ==
    /\ queue' = TurnOrderNew(roster, actors)
    /\ qPrev' = queue /\ res' = "none"
    /\ op' = [name |-> "new", amount |-> 0]
    /\ UNCHANGED health /\ SchedFrame

\* TurnOrder::skip_to_next, called with a living actor to find
sched_skip_to_next ==
    /\ queue # <<>>
    /\ FindNextLiving(queue, health) # None
    /\ queue' = skip_to_next(queue, health)
    /\ qPrev' = queue /\ res' = "none"
    /\ op' = [name |-> "skip_to_next", amount |-> 0]
    /\ UNCHANGED health /\ SchedFrame

\* TurnOrder::teams_alive
sched_teams_alive ==
    /\ queue # <<>>
    /\ res' = teams_alive(queue, health, actors)
    /\ qPrev' = queue
    /\ op' = [name |-> "teams_alive", amount |-> 0]
    /\ UNCHANGED <<queue, health>> /\ SchedFrame

\* between two calls an actor dies or is revived
sched_health_change ==
    /\ queue # <<>>
    /\ \E e \in DOMAIN health :
          health' = [health EXCEPT
                       ![e] = IF is_alive(@) THEN kill(@) ELSE heal_or_revive(@, 1)]
    /\ qPrev' = queue /\ res' = "none"
    /\ op' = [name |-> "health", amount |-> 0]
    /\ UNCHANGED queue /\ SchedFrame

NextSched ==
    \/ sched_new \/ sched_skip_to_next \/ sched_teams_alive
    \/ sched_health_change

SpecSched == InitSched /\ [][NextSched]_vars

Alive(e) == health[e].current # <<>>
QueueSet(q) == {q[i] : i \in 1..Len(q)}

C9_InitialOrderSortedStable ==
    op.name = "new" =>
        LET n == Len(roster)
            pos(e) == CHOOSE i \in 1..n : roster[i] = e
        IN /\ Len(queue) = n
           /\ \A e \in 1..n : Cardinality({i \in 1..n : queue[i] = e}) = 1
           /\ \A i, j \in 1..n :
                 i < j => \/ actors[queue[i]].speed < actors[queue[j]].speed
                          \/ /\ actors[queue[i]].speed = actors[queue[j]].speed
                             /\ pos(queue[i]) < pos(queue[j])
           /\ \A e \in 1..n :
                 \/ actors[e].speed < actors[queue[n]].speed
                 \/ /\ actors[e].speed = actors[queue[n]].speed
                    /\ pos(e) <= pos(queue[n])

\* speeds [4,2,6]: the speed-6 actor is the initial active actor
C9_Witness ==
    /\ op.name = "new"
    /\ Len(roster) = 3
    /\ [i \in 1..3 |-> actors[i].speed] = <<4, 2, 6>>
    /\ queue = <<2, 1, 3>>

\* C10: teams_alive returns Neither iff no queue member is alive, Both iff
\* a Player member and an Enemy member are alive, Player iff only Player
\* members are alive, Enemy iff only Enemy members are alive; the queue is
\* the one it was called on.
C10_TeamsAliveResult ==
    op.name = "teams_alive" =>
        LET living(t) == \E e \in QueueSet(queue) : Alive(e) /\ actors[e].team = t
        IN /\ res = "Neither" <=> (~living("Player") /\ ~living("Enemy"))
           /\ res = "Both" <=> (living("Player") /\ living("Enemy"))
           /\ res = "Player" <=> (living("Player") /\ ~living("Enemy"))
           /\ res = "Enemy" <=> (~living("Player") /\ living("Enemy"))
           /\ queue = qPrev

\* a rotated queue with a dead Player member in front of a living Enemy
\* member and a living Player member behind it
C10_Witness ==
    /\ op.name = "teams_alive" /\ res = "Both"
    /\ Len(queue) = 3
    /\ actors[queue[1]].team = "Player" /\ ~Alive(queue[1])
    /\ actors[queue[2]].team = "Enemy" /\ Alive(queue[2])
    /\ actors[queue[3]].team = "Player" /\ Alive(queue[3])
    /\ actors[queue[1]].speed > actors[queue[3]].speed

\* --------------------------------------------------- the combat claims
AtEndOfTurn ==
    panic = "none" /\ gameState = "Combat" /\ combatState = "EndOfTurn"
    /\ pc = "enter"
AtTurnSetup ==
    panic = "none" /\ gameState = "Combat" /\ combatState = "TurnSetup"
    /\ pc = "enter"
\* a turn has just begun: TurnSetup marked the active actor
TurnBegun ==
    gameState = "Combat" /\ combatState = "MoveToCenter" /\ pc = "enter"
Living(t) == \E e \in QueueSet(queue) : Alive(e) /\ actors[e].team = t
RogueSpecial(e, type) ==
    e \in DOMAIN actors /\ actors[e].name = "Theif" /\ type = "SpecialAction"

\* C2: whenever a new turn begins, the actor that TurnSetup marked as acting,
\* the tail of the turn queue, is alive; in the first turn of a combat too.
C2_TurnBeginsWithLivingActor ==
    TurnBegun => active(queue) \in acting /\ Alive(active(queue))

\* C3: skip_to_next, called by end_turn, always finds a living actor to
\* rotate to: its unwrap never fails.
C3_SkipToNextNeverFails == panic # "skip_to_next"

\* C4: in the two-actor scenario the Player actor acts first, the Enemy
\* actor never becomes the acting actor, nothing panics, and once the first
\* turn has ended the game is in Navigation (victory).
C4_ScenarioEndsInVictory ==
    actors = ScenarioStats =>
        /\ panic = "none"
        /\ 4 \notin acting
        /\ queue # <<>> => active(queue) = 1
        /\ gameState \in {"Combat", "Navigation"}
        /\ (combatState = "EndOfTurn" => ~Alive(4))
        /\ (prev.actor # 0 => gameState = "Navigation")

\* C5: the step taken at EndOfTurn leads, by the teams alive after the turn,
\* to TurnSetup (Both), to Navigation (Player only) or to GameOver (Enemy
\* only, Neither), and to nothing else.
C5_EndOfTurnSuccessor ==
    [][AtEndOfTurn =>
          /\ (Living("Player") /\ Living("Enemy")) =>
                (gameState' = "Combat" /\ combatState' = "TurnSetup" /\ panic' = "none")
          /\ (Living("Player") /\ ~Living("Enemy")) =>
                (gameState' = "Navigation" /\ panic' = "none")
          /\ ~Living("Player") => (gameState' = "GameOver" /\ panic' = "none")
      ]_vars

\* C6: when the acting actor is a Theif whose action was SpecialAction,
\* end_turn leaves the queue and the acting marker as they are, goes back to
\* TurnSetup if both teams are alive, and the turn that TurnSetup then
\* begins is a turn of the same actor.
C6_RogueSpecialKeepsTurn ==
    [][/\ (AtEndOfTurn /\ RogueSpecial(active(queue), action.type)) =>
              /\ queue' = queue
              /\ acting' = acting
              /\ (Living("Player") /\ Living("Enemy")) =>
                    (gameState' = "Combat" /\ combatState' = "TurnSetup")
       /\ (AtTurnSetup /\ RogueSpecial(prev.actor, prev.type)
             /\ combatState' = "MoveToCenter") =>
              /\ active(queue') = prev.actor
              /\ acting' = {prev.actor}
      ]_vars

\* the bonus turn of a Theif has begun
C6_Witness ==
    /\ TurnBegun
    /\ RogueSpecial(prev.actor, prev.type)
    /\ active(queue) = prev.actor
    /\ acting = {prev.actor}

\* C7: in every other case end_turn clears the acting marker of the actor
\* that acted and advances the queue to another actor, and the turn that
\* begins next in the combat is not a turn of the actor of the turn before.
C7_OtherTurnsAdvance ==
    [][/\ (AtEndOfTurn /\ ~RogueSpecial(active(queue), action.type)) =>
              /\ active(queue) \notin acting'
              /\ active(queue') # active(queue)
       /\ (AtTurnSetup /\ prev.actor # 0 /\ ~RogueSpecial(prev.actor, prev.type)
             /\ combatState' = "MoveToCenter") =>
              active(queue') # prev.actor
      ]_vars

\* ------------------------------------------- the resolution of an action
\* the step of perform_action
Performs ==
    InCombat("PerformAction", "enter") /\ combatState' = "MoveBack"

\* the health of every actor but t is what it was
OthersKept(t) ==
    /\ DOMAIN health' = DOMAIN health
    /\ \A e \in DOMAIN health : e # t => health'[e] = health[e]

\* C21: perform_action on Action::Attack changes no health when the attack
\* misses or the target blocks the hit; an unblocked Hit(d) takes d from the
\* target, which dies when it has no more than d, and leaves every other
\* actor and the turn queue alone; the block roll is drawn after a Hit, and
\* only then
C21_AttackFrame ==
    [][(Performs /\ action.type = "Attack") =>
          LET t == action.target
              r == last'.result
              cur == UnwrapOr0(health[t].current)
          IN /\ queue' = queue
             /\ OthersKept(t)
             /\ (r = Miss \/ last'.blocked) => health'[t] = health[t]
             /\ (r # Miss /\ ~last'.blocked) =>
                   /\ health'[t].max = health[t].max
                   /\ health'[t].current =
                         IF cur > r[2] THEN <<cur - r[2]>> ELSE <<>>
             /\ (r = Miss) => last'.draws = <<"hit">>
             /\ (r # Miss) => last'.draws = <<"hit", "damage", "block">>]_vars

\* an attack hit, the target failed its block roll and lost health
C21_Witness ==
    /\ last.type = "Attack" /\ last.result # Miss /\ ~last.blocked
    /\ last.draws = <<"hit", "damage", "block">>
    /\ is_alive(health[last.target])
    /\ health[last.target] # last.before[last.target]

\* an attack target was just chosen for the acting actor
AttackChosen ==
    /\ gameState = "Combat" /\ combatState = "PerformAction" /\ pc = "enter"
    /\ action.type = "Attack" /\ SingleActing

\* C22: the target chosen for an attack, by choose_action for a monster or
\* by choose_target for the player's basic attack, is alive and on the team
\* opposite to the acting actor, and neither selection ever indexes an empty
\* candidate list
C22_AttackTargetLivingOpponent ==
    /\ panic \notin {"choose_action", "choose_target"}
    /\ AttackChosen =>
          /\ action.target \in Entities
          /\ is_alive(health[action.target])
          /\ actors[action.target].team # actors[TheActing].team

\* a monster chose its target while one member of the party was dead
C22_Witness ==
    /\ AttackChosen /\ actors[TheActing].team = "Enemy"
    /\ \E e \in Party : ~is_alive(health[e])
    /\ is_alive(health[action.target])

\* the healer's special action was just chosen
HealChosen ==
    /\ gameState = "Combat" /\ combatState = "PerformAction" /\ pc = "enter"
    /\ action.type = "SpecialAction" /\ SingleActing
    /\ actors[TheActing].name = "Priestess"

\* C23: the target of the healer's special action is a living member of the
\* healer's team, and no living member of that team has less health
C23_HealTargetsLivingMostWounded ==
    HealChosen =>
       LET own == {e \in Entities : /\ actors[e].team = actors[TheActing].team
                                    /\ is_alive(health[e])}
       IN /\ action.target \in own
          /\ \A e \in own :
                Get(health[action.target].current) <= Get(health[e].current)

\* ------------------------------------------------- the order of the turns
\* q is q0 with its last k elements moved to the front, for some k
IsRotationOf(q, q0) ==
    /\ Len(q) = Len(q0)
    /\ \E k \in 0..Len(q0) :
          \A i \in 1..Len(q0) : q[((i + k - 1) % Len(q0)) + 1] = q0[i]

\* C24: the queue is at every moment a rotation of the queue built by
\* setup_turn_order for the combat: the same actors, dead ones included, in
\* the same cyclic order
C24_QueueIsRotation ==
    /\ IsRotationOf(queue, queue0)
    /\ (gameState = "Combat" /\ combatState # "None") =>
          {queue[i] : i \in 1..Len(queue)} = Entities

\* turns were taken, an actor died, and the queue has been rotated
C24_Witness ==
    /\ gameState = "Combat" /\ prev.actor # 0
    /\ queue # queue0
    /\ \E i \in 1..Len(queue) : ~is_alive(health[queue[i]])
    /\ Len(queue) >= 4

\* the step of prep_turn_order that begins a turn
BeginsTurn == InCombat("TurnSetup", "enter") /\ combatState' = "MoveToCenter"

\* the number of places by which b comes after a in the descending-speed
\* order of the queue built at the start of the combat, wrapping around
Idx0(e) == CHOOSE i \in 1..Len(queue0) : queue0[i] = e
PlacesAfter(a, b) == (Idx0(a) - Idx0(b)) % Len(queue0)

\* the recorded turns follow the cyclic order, starting after the watched
\* actor
LapInOrder(l) ==
    \A i \in 1..Len(l.turns) :
       /\ PlacesAfter(l.watch, l.turns[i]) >= 1
       /\ i > 1 => PlacesAfter(l.watch, l.turns[i - 1])
                      < PlacesAfter(l.watch, l.turns[i])

\* every other actor that was alive all the time has one recorded turn
LapComplete(l) ==
    \A b \in l.stayed \ {l.watch} :
       Cardinality({i \in 1..Len(l.turns) : l.turns[i] = b}) = 1

\* the first turn of a combat goes to an actor of highest speed
FastestFirst ==
    (prev = NoPrev) =>
       \A e \in Entities : actors[e].speed <= actors[active(queue)].speed

\* the turn of the watched actor comes again
LapCloses == lap.open /\ ~lap.special /\ active(queue) = lap.watch

SetupWithoutBoth ==
    AtTurnSetup /\ teams_alive(queue, health, actors) # "Both"

\* C26: prep_turn_order marks the acting actor and goes on to MoveToCenter
\* only when both teams have a living member, and a TurnSetup entered with
\* fewer than both teams alive is eventually followed by GameOver, Victory or
\* Navigation
C26_TurnSetupLeavesCombat ==
    /\ [][BeginsTurn =>
            /\ teams_alive(queue, health, actors) = "Both"
            /\ active(queue) \in acting']_vars
    /\ SetupWithoutBoth ~> (gameState \in {"GameOver", "Victory", "Navigation"})

\* C27: when the Pit event has killed the last living member of the party,
\* the game leaves TriggerEvent for GameOver, not for Navigation
C27_PitWipeIsGameOver ==
    [][(/\ gameState = "TriggerEvent" /\ room.r_type = "Pit"
        /\ LivingIn(health) = {}
        /\ gameState' # gameState) => gameState' = "GameOver"]_vars

\* the damage range of Attack::from_name(Warrior), 35..61
WarriorDamage == RandomRange(35, 61)

\* C28: the special action of the Warrior draws a hit roll and a damage from
\* the Warrior's own profile and no block roll; a Miss changes no health, a
\* Hit(d) takes floor(6d/5) from the target, which dies when it has no more
\* than that, and changes no other actor and not the queue; over the
\* Warrior's real damage range the f32 product cut off to u32 is floor(6d/5)
C28_WarriorSpecial ==
    /\ [](\A d \in WarriorDamage : ExtraDamage(d) = (6 * d) \div 5)
    /\ [][(/\ Performs /\ action.type = "SpecialAction"
           /\ actors[TheActing].name = "Warrior") =>
             LET t == action.target
                 r == last'.result
                 a == actors[TheActing]
                 cur == UnwrapOr0(health[t].current)
                 amount == (6 * r[2]) \div 5
             IN /\ queue' = queue
                /\ OthersKept(t)
                /\ ~last'.blocked
                /\ (r = Miss) => last'.draws = <<"hit">> /\ health' = health
                /\ (r # Miss) =>
                      /\ last'.draws = <<"hit", "damage">>
                      /\ r[2] \in RandomRange(a.lo, a.hi)
                      /\ health'[t].max = health[t].max
                      /\ health'[t].current =
                            IF cur > amount THEN <<cur - amount>> ELSE <<>>]_vars

\* the Warrior's special action hit a target that survived it
C28_Witness ==
    /\ last.type = "SpecialAction" /\ last.actor \in Entities
    /\ actors[last.actor].name = "Warrior" /\ last.result # Miss
    /\ last.draws = <<"hit", "damage">>
    /\ is_alive(health[last.target])
    /\ health[last.target] # last.before[last.target]

\* --------------------------------------------------- the ActingActor marker
\* the combat states whose systems ask for the single acting actor
TurnStates ==
    {"MoveToCenter", "CheckTeam", "SpawnMenu", "MonsterAttack",
     "PerformAction", "MoveBack", "EndOfTurn"}

\* C29: never more than one actor carries the ActingActor marker, and
\* whenever the systems of MoveToCenter, CheckTeam, SpawnMenu, MonsterAttack,
\* PerformAction, MoveBack or EndOfTurn are to run, the one actor that
\* carries it is the tail of the turn queue; in a later combat too, also
\* when the combat before ended on the rogue's special action and left the
\* marker on the rogue
C29_SingleActingActor ==
    /\ Cardinality(acting) <= 1
    /\ acting \subseteq Entities
    /\ (gameState = "Combat" /\ combatState \in TurnStates) =>
          acting = {active(queue)}

\* a combat starts while the rogue still carries the marker of the combat
\* before, and the rogue is the tail of the new queue
C29_Witness ==
    /\ AtTurnSetup /\ prev = NoPrev
    /\ teams_alive(queue, health, actors) = "Both"
    /\ acting = {active(queue)}

\* ------------------------------------------------------------ the Pit event
\* C30: the assertion actor_count > 0 of trigger_event never fails, and the
\* Pit event changes the health of one living actor only and does not kill
\* an actor that is at full health
C30_PitFindsLivingActor ==
    /\ [](panic # "trigger_event")
    /\ [][(/\ gameState = "TriggerEvent" /\ pc = "trigger"
           /\ room.r_type = "Pit" /\ pc' = "pause") =>
             \E e \in LivingIn(health) :
                /\ OthersKept(e)
                /\ health[e].current = <<health[e].max>> =>
                      is_alive(health'[e])]_vars

====
